---- MODULE Spec2Model ----
(***************************************************************************)
(* A model of utilities/utils.py: the angle helpers rad_2_deg and          *)
(* deg_2_rad, the chord distance linear_dist_sphere, the great-circle      *)
(* distance haversine and the two unit tests of UtilTests.                 *)
(*                                                                         *)
(* Python floats are modelled as binary floating-point numbers <<m, e>>    *)
(* (value m * 2^e) with a significand of Prec bits and an unbounded        *)
(* exponent; every arithmetic operation rounds its exact result to the     *)
(* nearest such number, ties to even, as IEEE 754 does with 53 bits.       *)
(* The C library functions sin, cos and asin are evaluated in 30-bit fixed *)
(* point and then rounded.  TLC's integers are 32 bits wide, so products   *)
(* are formed in two 30-bit limbs.                                         *)
(***************************************************************************)
EXTENDS Integers, Sequences, FiniteSets, TLC

VARIABLES
    globals,    \* the names bound in the module namespace of utils.py
    libm,       \* how the C library's pow rounds
    call,       \* the call made: [fn, args, test], test the test case it is of
    ret,        \* its outcome: [kind, val, exc, loc]
    frames,     \* per thread, the frame of the call it is executing
    calls,      \* per thread, the call it made
    results     \* per thread, the outcome of its call

vars == <<globals, libm, call, ret, frames, calls, results>>

(***************************************************************************)
(* Bounds of the model.                                                    *)
(***************************************************************************)
Prec == 22          \* bits of a float's significand (53 in CPython)
MaxLatIdx == 7      \* latitudes every 20 degrees up to 20 * MaxLatIdx on either side
MaxLongIdx == 1     \* longitudes every 90 degrees up to 90 * MaxLongIdx on either side
MaxSurfIdx == 4     \* surface distances 0, 5, .. 5 * MaxSurfIdx
MaxDepthIdx == 6    \* depths 0, radius/4, .. MaxDepthIdx*radius/4
MaxUlps == 8        \* radial distances up to MaxUlps units in the last place apart
MaxAngle == 60      \* angles -MaxAngle .. MaxAngle for the angle helpers

(***************************************************************************)
(* Floating-point arithmetic.                                              *)
(***************************************************************************)
Zero == <<0, 0>>

Sgn(m) == IF m < 0 THEN -1 ELSE 1

Abs(m) == IF m < 0 THEN -m ELSE m

WithSign(s, x) == <<s * x[1], x[2]>>

RECURSIVE BitLen(_)
BitLen(n) == IF n = 0 THEN 0 ELSE 1 + BitLen(n \div 2)

\* (n + a fraction, nonzero iff sticky) * 2^e, n >= 0, rounded to the nearest
\* float of p bits, ties to even
RoundTo(n, e, sticky, p) ==
    IF n = 0 THEN Zero
    ELSE LET k == BitLen(n) - p IN
         IF k <= 0 THEN <<n * 2^(-k), e + k>>
         ELSE LET q == n \div 2^k
                  r == n % 2^k
                  half == 2^(k - 1)
                  up == r > half \/ (r = half /\ (sticky \/ q % 2 = 1))
                  q1 == IF up THEN q + 1 ELSE q
              IN  IF q1 = 2^p THEN <<2^(p - 1), e + k + 1>> ELSE <<q1, e + k>>

Rnd(n, e, sticky) == RoundTo(n, e, sticky, Prec)

\* the same, rounded toward zero
Chop(n, e) ==
    IF n = 0 THEN Zero
    ELSE LET k == BitLen(n) - Prec IN
         IF k <= 0 THEN <<n * 2^(-k), e + k>> ELSE <<n \div 2^k, e + k>>

B15 == 2^15
B30 == 2^30

\* exact product of a, b in 0..2^30 as <<hi, lo>>, a * b = hi * 2^30 + lo
BigMul(a, b) ==
    LET ah == a \div B15
        al == a % B15
        bh == b \div B15
        bl == b % B15
        mid == ah * bl + al * bh
        low == al * bl + (mid % B15) * B15
    IN  <<ah * bh + mid \div B15 + low \div B30, low % B30>>

\* <<n, s, sticky>>: hi * 2^30 + lo = n * 2^s + rest, n the leading 30 bits,
\* sticky iff rest # 0
Top30(hl) ==
    IF hl[1] = 0 THEN <<hl[2], 0, FALSE>>
    ELSE LET s == BitLen(hl[1]) IN
         <<hl[1] * 2^(30 - s) + hl[2] \div 2^s, s, hl[2] % 2^s # 0>>

FNeg(x) == <<-x[1], x[2]>>

FAbs(x) == <<Abs(x[1]), x[2]>>

FMul(x, y) ==
    IF x[1] = 0 \/ y[1] = 0 THEN Zero
    ELSE LET t == Top30(BigMul(Abs(x[1]), Abs(y[1]))) IN
         WithSign(Sgn(x[1]) * Sgn(y[1]), Rnd(t[1], x[2] + y[2] + t[2], t[3]))

\* x * y rounded toward zero
FMulChop(x, y) ==
    IF x[1] = 0 \/ y[1] = 0 THEN Zero
    ELSE LET t == Top30(BigMul(Abs(x[1]), Abs(y[1]))) IN
         WithSign(Sgn(x[1]) * Sgn(y[1]), Chop(t[1], x[2] + y[2] + t[2]))

\* n / 2^d with the bits shifted out or-ed into the last bit
ShrSticky(n, d) ==
    IF d > 30 THEN (IF n = 0 THEN 0 ELSE 1)
    ELSE LET q == n \div 2^d IN
         IF n % 2^d = 0 \/ q % 2 = 1 THEN q ELSE q + 1

FAddOrdered(x, y) ==   \* x[2] >= y[2], neither zero
    LET d == x[2] - y[2]
        n == IF d <= 3 THEN x[1] * 2^d + y[1]
             ELSE x[1] * 8 + Sgn(y[1]) * ShrSticky(Abs(y[1]) * 8, d)
        e == IF d <= 3 THEN y[2] ELSE x[2] - 3
    IN  IF n = 0 THEN Zero ELSE WithSign(Sgn(n), Rnd(Abs(n), e, FALSE))

FAdd(x, y) ==
    IF x[1] = 0 THEN y
    ELSE IF y[1] = 0 THEN x
    ELSE IF x[2] >= y[2] THEN FAddOrdered(x, y) ELSE FAddOrdered(y, x)

FSub(x, y) == FAdd(x, FNeg(y))

\* the quotient extended to Prec + 2 bits: <<q, r, k>> after k more bits, the
\* dividend extended by k zeros
RECURSIVE DivBits(_, _, _, _)
DivBits(q, r, d, k) ==
    IF q >= 2^(Prec + 1) THEN <<q, r, k>>
    ELSE IF 2 * r >= d THEN DivBits(2 * q + 1, 2 * r - d, d, k + 1)
         ELSE DivBits(2 * q, 2 * r, d, k + 1)

\* the float nearest to (n / d) * 2^e, n >= 0, d > 0
Ratio(n, d, e) ==
    IF n = 0 THEN Zero
    ELSE LET qr == DivBits(n \div d, n % d, d, 0) IN
         Rnd(qr[1], e - qr[3], qr[2] # 0)

\* floor of the square root of n, bit pair by bit pair from pair i down
RECURSIVE SqrtPairs(_, _, _, _)
SqrtPairs(n, i, root, rem) ==
    IF i < 0 THEN <<root, rem>>
    ELSE LET r4 == 4 * rem + ((n \div 4^i) % 4)
             trial == 4 * root + 1
         IN  IF r4 >= trial THEN SqrtPairs(n, i - 1, 2 * root + 1, r4 - trial)
             ELSE SqrtPairs(n, i - 1, 2 * root, r4)

\* k more bits of the root
RECURSIVE SqrtBits(_, _, _)
SqrtBits(root, rem, k) ==
    IF k = 0 THEN <<root, rem>>
    ELSE LET trial == 4 * root + 1 IN
         IF 4 * rem >= trial THEN SqrtBits(2 * root + 1, 4 * rem - trial, k - 1)
         ELSE SqrtBits(2 * root, 4 * rem, k - 1)

\* <<root, sticky, e1>>: sqrt(m * 2^e) = (root + fraction) * 2^e1, root of nb bits
SqrtN(m, e, nb) ==
    LET m1 == IF e % 2 = 0 THEN m ELSE 2 * m
        e1 == IF e % 2 = 0 THEN e ELSE e - 1
        r0 == SqrtPairs(m1, (BitLen(m1) + 1) \div 2 - 1, 0, 0)
        k == nb - BitLen(r0[1])
        rr == SqrtBits(r0[1], r0[2], k)
    IN  <<rr[1], rr[2] # 0, e1 \div 2 - k>>

FromInt(n) == WithSign(Sgn(n), Rnd(Abs(n), 0, FALSE))

\* the float nearest to n / d, as a decimal literal is read
FromRatio(n, d) == WithSign(Sgn(n), Ratio(Abs(n), d, 0))

FLe(x, y) == FSub(x, y)[1] <= 0

\* the integer nearest to x, ties to even, as a float: round(x, 0)
FRoundInt(x) ==
    IF x[2] >= 0 THEN x
    ELSE IF -x[2] > 30 THEN Zero
    ELSE LET k == -x[2]
             q == Abs(x[1]) \div 2^k
             r == Abs(x[1]) % 2^k
             half == 2^(k - 1)
             q1 == IF r > half \/ (r = half /\ q % 2 = 1) THEN q + 1 ELSE q
         IN  WithSign(Sgn(x[1]), Rnd(q1, 0, FALSE))

\* one unit in the last place of the floats in [1, 2)
Ulp == <<2^(Prec - 1), 2 - 2 * Prec>>

One == FromInt(1)
Two == FromInt(2)

FDiv(x, y) ==   \* y # 0
    WithSign(Sgn(x[1]) * Sgn(y[1]), Ratio(Abs(x[1]), Abs(y[1]), x[2] - y[2]))

FSqrt(x) ==     \* x >= 0
    IF x[1] = 0 THEN Zero
    ELSE LET r == SqrtN(x[1], x[2], Prec + 2) IN Rnd(r[1], r[3], r[2])

(***************************************************************************)
(* The C library's sin, cos and asin: series in fixed point with 30        *)
(* fractional bits on arguments reduced to [0, pi/4], then rounded to a    *)
(* float.  Angles are below 8 radians in absolute value.                   *)
(***************************************************************************)
PI28 == 843314857           \* pi * 2^28
HalfPi28 == PI28 \div 2
QuartPi28 == PI28 \div 4

\* x * y / 2^30 for x, y in 0..2^30
XMul(x, y) == BigMul(x, y)[1]

\* floor(m * 2^(e + f)), m >= 0
ToFx(m, e, f) ==
    IF e + f >= 0 THEN m * 2^(e + f)
    ELSE IF -(e + f) > 30 THEN 0
    ELSE m \div 2^(-(e + f))

\* sum over k of (-1)^k x^(2k) / (2k+1)!, from term k on
RECURSIVE SinSer(_, _, _, _)
SinSer(x2, u, k, acc) ==
    LET u1 == XMul(u, x2) \div ((2 * k + 2) * (2 * k + 3)) IN
    IF u1 = 0 THEN acc
    ELSE SinSer(x2, u1, k + 1, IF k % 2 = 0 THEN acc - u1 ELSE acc + u1)

\* sum over k of (-1)^k x^(2k) / (2k)!
RECURSIVE CosSer(_, _, _, _)
CosSer(x2, u, k, acc) ==
    LET u1 == XMul(u, x2) \div ((2 * k + 1) * (2 * k + 2)) IN
    IF u1 = 0 THEN acc
    ELSE CosSer(x2, u1, k + 1, IF k % 2 = 0 THEN acc - u1 ELSE acc + u1)

Sinc30(X) == SinSer(XMul(X, X), B30, 0, B30)    \* sin(x) / x

Cos30(X) == CosSer(XMul(X, X), B30, 0, B30)

Sin30(X) == XMul(X, Sinc30(X))

\* the float nearest to m * 2^e * S / 2^f
MulFx(m, e, S, f) ==
    LET t == Top30(BigMul(m, S)) IN Rnd(t[1], e - f + t[2], t[3])

\* sin of X / 2^28 in [0, pi]
SinFx(X) ==
    IF X <= QuartPi28 THEN Rnd(Sin30(4 * X), -30, FALSE)
    ELSE IF X <= HalfPi28 THEN Rnd(Cos30(4 * (HalfPi28 - X)), -30, FALSE)
    ELSE IF X <= HalfPi28 + QuartPi28 THEN Rnd(Cos30(4 * (X - HalfPi28)), -30, FALSE)
    ELSE Rnd(Sin30(4 * (PI28 - X)), -30, FALSE)

\* cos of X / 2^28 in [0, pi]
CosFx(X) ==
    IF X <= QuartPi28 THEN Rnd(Cos30(4 * X), -30, FALSE)
    ELSE IF X <= HalfPi28 THEN Rnd(Sin30(4 * (HalfPi28 - X)), -30, FALSE)
    ELSE IF X <= HalfPi28 + QuartPi28 THEN FNeg(Rnd(Sin30(4 * (X - HalfPi28)), -30, FALSE))
    ELSE FNeg(Rnd(Cos30(4 * (PI28 - X)), -30, FALSE))

Sin(x) ==
    IF x[1] = 0 THEN x
    ELSE LET m == Abs(x[1])
             X == ToFx(m, x[2], 28)
             r == IF X <= QuartPi28 THEN MulFx(m, x[2], Sinc30(ToFx(m, x[2], 30)), 30)
                  ELSE IF X <= PI28 THEN SinFx(X)
                  ELSE IF X <= 2 * PI28 THEN FNeg(SinFx(X - PI28))
                  ELSE SinFx(X - 2 * PI28)
         IN  WithSign(Sgn(x[1]), r)

Cos(x) ==
    LET m == Abs(x[1])
        X == ToFx(m, x[2], 28)
    IN  IF X <= QuartPi28 THEN Rnd(Cos30(ToFx(m, x[2], 30)), -30, FALSE)
        ELSE IF X <= PI28 THEN CosFx(X)
        ELSE IF X <= 2 * PI28 THEN CosFx(2 * PI28 - X)
        ELSE CosFx(X - 2 * PI28)

\* sum over k >= 1 of c_k y^(2k), asin(y) = y * (1 + sum);
\* u is (2k-1)!!/(2k)!! y^(2k)
RECURSIVE AsinSer(_, _, _, _)
AsinSer(y2, u, k, acc) ==
    LET u1 == (XMul(u, y2) * (2 * k + 1)) \div (2 * k + 2) IN
    IF u1 = 0 THEN acc
    ELSE AsinSer(y2, u1, k + 1, acc + u1 \div (2 * k + 3))

\* asin(y) / y with 29 fractional bits, y * 2^30 = Y, y <= 0.71
Asinc29(Y) == (B30 + AsinSer(XMul(Y, Y), B30, 0, 0)) \div 2

\* asin of y in [-1, 1]; above 0.71 as pi/2 - 2 asin(sqrt((1 - y) / 2))
Asin(y) ==
    IF y[1] = 0 THEN y
    ELSE LET m == Abs(y[1])
             Y == ToFx(m, y[2], 30)
             W == B30 - Y
             z == SqrtN(W, -31, 27)
             Z == ToFx(z[1], z[3], 30)
             r == IF XMul(Y, Y) <= B30 \div 2 THEN MulFx(m, y[2], Asinc29(Y), 29)
                  ELSE IF W = 0 THEN Rnd(HalfPi28, -28, FALSE)
                  ELSE Rnd(2 * HalfPi28 - 2 * XMul(Z, Asinc29(Z)), -29, FALSE)
         IN  WithSign(Sgn(y[1]), r)

Pi == Rnd(PI28, -28, FALSE)

(***************************************************************************)
(* The module namespace and the frames of calls.                           *)
(***************************************************************************)
\* the names the module-level statements of utils.py bind (lines 1-5 and the
\* def and class statements); "pi" is not among them
ModuleGlobals ==
    {"List", "Tuple", "Sequence", "Optional", "Dict", "unittest", "pd",
     "radians", "cos", "sin", "asin", "sqrt",
     "hello", "rad_2_deg", "deg_2_rad", "linear_dist_sphere", "pd_display",
     "haversine", "UtilTests"}

Builtins == {"map", "round", "print"}

\* a name that is not local to the function resolves in the module
\* namespace, then in the builtins
Bound(g, names) == names \subseteq (g \cup Builtins)

\* pow of the C library is accurate to one unit in the last place; it either
\* rounds x * x to nearest or toward zero
LibmModes == {"nearest", "chop"}

Pow2(x) == IF libm = "nearest" THEN FMul(x, x) ELSE FMulChop(x, x)

\* math.radians multiplies by the constant pi / 180
Radians(x) == FMul(x, FDiv(Pi, FromInt(180)))

RADIUS_EARTH_KM == 6367

Params(fn) ==
    CASE fn = "haversine" -> <<"long0", "lat0", "long1", "lat1">>
      [] fn = "linear_dist_sphere" -> <<"radius", "surf_dist", "depth_a", "depth_b">>
      [] fn = "rad_2_deg" -> <<"rad">>
      [] fn = "deg_2_rad" -> <<"deg">>

FirstLine(fn) ==
    CASE fn = "haversine" -> 73
      [] fn = "linear_dist_sphere" -> 32
      [] fn = "rad_2_deg" -> 12
      [] fn = "deg_2_rad" -> 17

\* pc is the line to execute next, 0 after a return, -1 after a raise
NewFrame(fn, args) ==
    [fn |-> fn, pc |-> FirstLine(fn),
     loc |-> [n \in {Params(fn)[i] : i \in 1..Len(args)} |->
                 args[CHOOSE i \in 1..Len(args) : Params(fn)[i] = n]],
     val |-> Zero, exc |-> "none"]

NoFrame == [fn |-> "none", pc |-> 0, loc |-> <<>>, val |-> Zero, exc |-> "none"]

Bind(f, name, v, next) == [f EXCEPT !.loc = (name :> v) @@ @, !.pc = next]

Return(f, v) == [f EXCEPT !.pc = 0, !.val = v]

Raise(f, e) == [f EXCEPT !.pc = -1, !.exc = e]

Finished(f) == f.pc <= 0

\* what a finished call leaves: its value or its exception, and the locals
Outcome(f) ==
    IF f.pc = 0 THEN [kind |-> "value", val |-> f.val, exc |-> "none", loc |-> f.loc]
    ELSE [kind |-> "error", val |-> Zero, exc |-> f.exc, loc |-> f.loc]

NoOutcome == [kind |-> "none", val |-> Zero, exc |-> "none", loc |-> <<>>]

(***************************************************************************)
(* rad_2_deg and deg_2_rad.                                                *)
(***************************************************************************)
\* return rad * 180 / pi
rad_2_deg_L12(f, g) ==
    IF ~Bound(g, {"pi"}) THEN Raise(f, "NameError")
    ELSE Return(f, FDiv(FMul(f.loc["rad"], FromInt(180)), Pi))

\* return deg * pi / 180
deg_2_rad_L17(f, g) ==
    IF ~Bound(g, {"pi"}) THEN Raise(f, "NameError")
    ELSE Return(f, FDiv(FMul(f.loc["deg"], Pi), FromInt(180)))

(***************************************************************************)
(* linear_dist_sphere.                                                     *)
(***************************************************************************)
\* from math import cos, pi, sqrt: binds three names in the frame
lds_L32(f) ==
    [f EXCEPT !.loc = ("cos" :> "math.cos") @@ ("pi" :> Pi) @@ ("sqrt" :> "math.sqrt") @@ @,
              !.pc = 33]

\* circumferance = 2 * pi * radius
lds_L33(f) ==
    Bind(f, "circumferance", FMul(FMul(Two, f.loc["pi"]), f.loc["radius"]), 34)

\* the angle left as a fraction of the circle
lds_L34_fraction(f) ==
    IF f.loc["circumferance"][1] = 0 THEN Raise(f, "ZeroDivisionError")
    ELSE Bind(f, "theta_rad", FDiv(f.loc["surf_dist"], f.loc["circumferance"]), 36)

\* theta_rad = (surf_dist / circumferance) * ( 2 * pi )
lds_L34(f) ==
    IF f.loc["circumferance"][1] = 0 THEN Raise(f, "ZeroDivisionError")
    ELSE Bind(f, "theta_rad",
              FMul(FDiv(f.loc["surf_dist"], f.loc["circumferance"]),
                   FMul(Two, f.loc["pi"])), 36)

\* a = radius - depth_a
lds_L36(f) == Bind(f, "a", FSub(f.loc["radius"], f.loc["depth_a"]), 37)

\* b = radius - depth_b
lds_L37(f) == Bind(f, "b", FSub(f.loc["radius"], f.loc["depth_b"]), 38)

\* the angle ignored
Radicand_flat(a, b, theta) ==
    FSub(FAdd(Pow2(a), Pow2(b)), FMul(FMul(Two, a), b))

\* a**2 + b**2 - 2 * a * b * cos(theta_rad)
Radicand(a, b, theta) ==
    FSub(FAdd(Pow2(a), Pow2(b)), FMul(FMul(FMul(Two, a), b), Cos(theta)))

\* c = sqrt(a**2 + b**2 - 2 * a * b * cos(theta_rad))
lds_L38(f) ==
    LET x == Radicand(f.loc["a"], f.loc["b"], f.loc["theta_rad"]) IN
    IF x[1] < 0 THEN Raise(f, "ValueError") ELSE Bind(f, "c", FSqrt(x), 39)

\* return c
lds_L39(f) == Return(f, f.loc["c"])

(***************************************************************************)
(* haversine.                                                              *)
(***************************************************************************)
\* the radius in miles of the comment of line 73
hav_L73_miles(f) == Bind(f, "RADIUS_EARTH_KM", FromInt(3956), 76)

\* RADIUS_EARTH_KM = 6367
hav_L73(f) == Bind(f, "RADIUS_EARTH_KM", FromInt(RADIUS_EARTH_KM), 76)

\* long0, lat0, long1, lat1 = map(radians, [long0, lat0, long1, lat1])
hav_L76(f, g) ==
    IF ~Bound(g, {"map", "radians"}) THEN Raise(f, "NameError")
    ELSE [f EXCEPT !.loc = [n \in {"long0", "lat0", "long1", "lat1"} |-> Radians(f.loc[n])] @@ @,
                   !.pc = 79]

\* dlong = long1 - long0
hav_L79(f) == Bind(f, "dlong", FSub(f.loc["long1"], f.loc["long0"]), 80)

\* the latitudes added
hav_L80_sum(f) == Bind(f, "dlat", FAdd(f.loc["lat1"], f.loc["lat0"]), 81)

\* dlat = lat1 - lat0
hav_L80(f) == Bind(f, "dlat", FSub(f.loc["lat1"], f.loc["lat0"]), 81)

\* cos(lat0) taken twice
HavA_lat0(lat0, lat1, dlat, dlong) ==
    FAdd(Pow2(Sin(FDiv(dlat, Two))),
         FMul(FMul(Cos(lat0), Cos(lat0)), Pow2(Sin(FDiv(dlong, Two)))))

\* sin(dlat/2)**2 + cos(lat0) * cos(lat1) * sin(dlong/2)**2
HavA(lat0, lat1, dlat, dlong) ==
    FAdd(Pow2(Sin(FDiv(dlat, Two))),
         FMul(FMul(Cos(lat0), Cos(lat1)), Pow2(Sin(FDiv(dlong, Two)))))

\* a = sin(dlat/2)**2 + cos(lat0) * cos(lat1) * sin(dlong/2)**2
hav_L81(f, g) ==
    IF ~Bound(g, {"sin", "cos"}) THEN Raise(f, "NameError")
    ELSE Bind(f, "a", HavA(f.loc["lat0"], f.loc["lat1"], f.loc["dlat"], f.loc["dlong"]), 82)

\* c = 2 * asin(sqrt(a)): sqrt raises on a negative argument, asin on one
\* above 1
hav_L82(f, g) ==
    IF ~Bound(g, {"asin", "sqrt"}) THEN Raise(f, "NameError")
    ELSE IF f.loc["a"][1] < 0 THEN Raise(f, "ValueError")
    ELSE LET r == FSqrt(f.loc["a"]) IN
         IF ~FLe(r, One) THEN Raise(f, "ValueError")
         ELSE Bind(f, "c", FMul(Two, Asin(r)), 84)

\* return RADIUS_EARTH_KM * c
hav_L84(f) == Return(f, FMul(f.loc["RADIUS_EARTH_KM"], f.loc["c"]))

(***************************************************************************)
(* Execution: one statement, and a call run to its end.                    *)
(***************************************************************************)
\* the frame after the statement at f.pc, under the module namespace g
StepFrame(f, g) ==
    CASE f.fn = "rad_2_deg" /\ f.pc = 12 -> rad_2_deg_L12(f, g)
      [] f.fn = "deg_2_rad" /\ f.pc = 17 -> deg_2_rad_L17(f, g)
      [] f.fn = "linear_dist_sphere" /\ f.pc = 32 -> lds_L32(f)
      [] f.fn = "linear_dist_sphere" /\ f.pc = 33 -> lds_L33(f)
      [] f.fn = "linear_dist_sphere" /\ f.pc = 34 -> lds_L34(f)
      [] f.fn = "linear_dist_sphere" /\ f.pc = 36 -> lds_L36(f)
      [] f.fn = "linear_dist_sphere" /\ f.pc = 37 -> lds_L37(f)
      [] f.fn = "linear_dist_sphere" /\ f.pc = 38 -> lds_L38(f)
      [] f.fn = "linear_dist_sphere" /\ f.pc = 39 -> lds_L39(f)
      [] f.fn = "haversine" /\ f.pc = 73 -> hav_L73(f)
      [] f.fn = "haversine" /\ f.pc = 76 -> hav_L76(f, g)
      [] f.fn = "haversine" /\ f.pc = 79 -> hav_L79(f)
      [] f.fn = "haversine" /\ f.pc = 80 -> hav_L80(f)
      [] f.fn = "haversine" /\ f.pc = 81 -> hav_L81(f, g)
      [] f.fn = "haversine" /\ f.pc = 82 -> hav_L82(f, g)
      [] f.fn = "haversine" /\ f.pc = 84 -> hav_L84(f)

\* the import of line 32 binding its names in the module namespace
StepGlobals_import(f, g) ==
    IF f.fn = "linear_dist_sphere" /\ f.pc = 32 THEN g \cup {"cos", "pi", "sqrt"} ELSE g

\* the module namespace after the statement at f.pc: no statement of the four
\* functions binds a module-level name (the import of line 32 binds locals)
StepGlobals(f, g) == g

RECURSIVE Run(_, _)
Run(f, g) == IF Finished(f) THEN [f |-> f, g |-> g]
             ELSE Run(StepFrame(f, g), StepGlobals(f, g))

\* the call fn(args) run alone: its outcome and the namespace it leaves
Call(fn, args, g) == Run(NewFrame(fn, args), g)

(***************************************************************************)
(* The inputs of the calls and the cases of the unit tests.                *)
(***************************************************************************)
Lats == {FromInt(20 * i) : i \in -MaxLatIdx..MaxLatIdx}

Longs == {FromInt(90 * i) : i \in -MaxLongIdx..MaxLongIdx}

\* UtilTests.test_haversine: IAD-ORD, LAS-JFK, DEN-MCO as (long0, lat0, long1, lat1)
HavTests ==
    << [args |-> <<FromRatio(774565, 10000), FromRatio(389531, 10000),
                   FromRatio(879090, 10000), FromRatio(419803, 10000)>>,
        target |-> FromInt(946)],
       [args |-> <<FromRatio(1151398, 10000), FromRatio(361699, 10000),
                   FromRatio(737781, 10000), FromRatio(406413, 10000)>>,
        target |-> FromInt(3618)],
       [args |-> <<FromRatio(1046737, 10000), FromRatio(398561, 10000),
                   FromRatio(813081, 10000), FromRatio(284312, 10000)>>,
        target |-> FromInt(2488)] >>

\* UtilTests.test_linear_distance_sphere as (radius, surf_dist, depth_a, depth_b)
ChordTests ==
    << [args |-> <<FromInt(10), FromInt(10), Zero, Zero>>, target |-> FromInt(10)],
       [args |-> <<FromInt(1000), FromInt(10), Zero, Zero>>, target |-> FromInt(10)],
       [args |-> <<FromInt(1000), FromInt(10), FromInt(500), FromInt(500)>>,
        target |-> FromInt(5)],
       [args |-> <<FromInt(1000), FromInt(10), FromInt(10), Zero>>,
        target |-> FromRatio(14414, 1000)] >>

\* unittest's assertAlmostEqual(first, second, delta=delta)
AssertAlmostEqual(first, second, delta) ==
    first = second \/ FLe(FAbs(FSub(first, second)), delta)

SurfDists == {FromInt(5 * i) : i \in 0..MaxSurfIdx}

\* depths from the surface to below the centre, in quarters of the radius
DepthsOf(r) == {Ratio(r * k, 4, 0) : k \in 0..MaxDepthIdx}

\* depths 3/4 - j ulp: under a sphere of radius 2 the points are at radial
\* distances 5/4 + j ulp, a few units in the last place apart
CloseDepths == {FSub(FromRatio(3, 4), Rnd(j, 1 - Prec, FALSE)) : j \in 0..MaxUlps}

ChordInputs ==
    UNION {{<<FromInt(r), s, da, db>> : s \in SurfDists, da \in DepthsOf(r), db \in DepthsOf(r)}
           : r \in {10, 1000}}
    \cup {<<FromInt(1000), s, s, Zero>> : s \in SurfDists}
    \cup {<<Two, Zero, da, db>> : da \in CloseDepths, db \in CloseDepths}

Angles == {FromInt(i) : i \in -MaxAngle..MaxAngle}

Threads == {1, 2}

\* the calls the threads make
ThreadCalls ==
    {[fn |-> "haversine", args |-> HavTests[1].args],
     [fn |-> "haversine", args |-> <<Zero, FromInt(40), FromInt(180), FromInt(-40)>>],
     [fn |-> "linear_dist_sphere", args |-> ChordTests[1].args],
     [fn |-> "linear_dist_sphere", args |-> ChordTests[4].args],
     [fn |-> "rad_2_deg", args |-> <<One>>]}

(***************************************************************************)
(* The state machine.                                                      *)
(***************************************************************************)
NoCall == [fn |-> "none", args |-> <<>>, test |-> 0]

Init ==
    /\ globals = ModuleGlobals
    /\ libm \in LibmModes
    /\ call = NoCall
    /\ ret = NoOutcome
    /\ frames = [t \in Threads |-> NoFrame]
    /\ calls = [t \in Threads |-> NoCall]
    /\ results = [t \in Threads |-> NoOutcome]

\* the one call of a run, made and run to its end
Invoke(fn, args, test) ==
    LET r == Call(fn, args, globals) IN
    /\ call = NoCall
    /\ call' = [fn |-> fn, args |-> args, test |-> test]
    /\ ret' = Outcome(r.f)
    /\ globals' = r.g
    /\ UNCHANGED <<libm, frames, calls, results>>

HavCall ==
    \E long0 \in Longs, lat0 \in Lats, long1 \in Longs, lat1 \in Lats :
        Invoke("haversine", <<long0, lat0, long1, lat1>>, 0)

\* one iteration of the loop of test_haversine
TestHaversine == \E i \in 1..Len(HavTests) : Invoke("haversine", HavTests[i].args, i)

ChordCall == \E a \in ChordInputs : Invoke("linear_dist_sphere", a, 0)

\* one iteration of the loop of test_linear_distance_sphere
TestChord == \E i \in 1..Len(ChordTests) : Invoke("linear_dist_sphere", ChordTests[i].args, i)

RadToDegCall == \E x \in Angles : Invoke("rad_2_deg", <<x>>, 0)

DegToRadCall == \E x \in Angles : Invoke("deg_2_rad", <<x>>, 0)

\* the call fn(v) of the value v a finished call r returned; r itself if it
\* raised, the exception passing through the outer call
Then(r, fn) == IF r.f.pc = 0 THEN Call(fn, <<r.f.val>>, r.g) ELSE r

\* rad_2_deg(deg_2_rad(x))
RoundTrip(x, g) == Then(Call("deg_2_rad", <<x>>, g), "rad_2_deg")

RoundTripCall ==
    \E x \in Angles :
        /\ call = NoCall
        /\ call' = [fn |-> "rad_2_deg(deg_2_rad)", args |-> <<x>>, test |-> 0]
        /\ ret' = Outcome(RoundTrip(x, globals).f)
        /\ globals' = RoundTrip(x, globals).g
        /\ UNCHANGED <<libm, frames, calls, results>>

\* a thread makes a call: a fresh frame
ThreadCall(t) ==
    /\ frames[t] = NoFrame
    /\ \E c \in ThreadCalls :
        /\ frames' = [frames EXCEPT ![t] = NewFrame(c.fn, c.args)]
        /\ calls' = [calls EXCEPT ![t] = [fn |-> c.fn, args |-> c.args, test |-> 0]]
        /\ results' = [results EXCEPT ![t] = NoOutcome]
    /\ UNCHANGED <<globals, libm, call, ret>>

\* a thread executes the next statement of its call
ThreadStep(t) ==
    /\ frames[t] # NoFrame
    /\ ~Finished(frames[t])
    /\ frames' = [frames EXCEPT ![t] = StepFrame(frames[t], globals)]
    /\ globals' = StepGlobals(frames[t], globals)
    /\ UNCHANGED <<libm, call, ret, calls, results>>

\* the call of a thread ends: the caller has the outcome, the frame is gone
ThreadReturn(t) ==
    /\ frames[t] # NoFrame
    /\ Finished(frames[t])
    /\ results' = [results EXCEPT ![t] = Outcome(frames[t])]
    /\ frames' = [frames EXCEPT ![t] = NoFrame]
    /\ UNCHANGED <<globals, libm, call, ret, calls>>

NextHaversine == HavCall \/ TestHaversine

NextChord == ChordCall \/ TestChord

NextAngle == RadToDegCall \/ DegToRadCall \/ RoundTripCall

NextThreads == \E t \in Threads : ThreadCall(t) \/ ThreadStep(t) \/ ThreadReturn(t)

SpecHaversine == Init /\ [][NextHaversine]_vars

SpecChord == Init /\ [][NextChord]_vars

SpecAngle == Init /\ [][NextAngle]_vars

SpecThreads == Init /\ [][NextThreads]_vars

(***************************************************************************)
(* Properties.                                                             *)
(***************************************************************************)
\* an outcome without the locals
Brief(o) == [kind |-> o.kind, val |-> o.val, exc |-> o.exc]

IsHav == call.fn = "haversine"

IsChord == call.fn = "linear_dist_sphere"

C2_IdenticalPointsZero ==
    (IsHav /\ call.args[1] = call.args[3] /\ call.args[2] = call.args[4]) =>
        (ret.kind = "value" /\ ret.val = Zero)

C2_Witness ==
    /\ IsHav
    /\ call.args[1] = call.args[3] /\ call.args[2] = call.args[4]
    /\ call.args[1] # Zero /\ call.args[2] # Zero
    /\ ret.kind = "value" /\ ret.val = Zero

\* C3: haversine gives the same outcome with the two points swapped.
C3_Symmetric ==
    IsHav =>
        Brief(ret) =
            Brief(Outcome(Call("haversine",
                               <<call.args[3], call.args[4], call.args[1], call.args[2]>>,
                               ModuleGlobals).f))

C3_Witness ==
    /\ IsHav
    /\ call.args[1] # call.args[3] /\ call.args[2] # call.args[4]
    /\ call.args[2] # FNeg(call.args[4])
    /\ ret.kind = "value" /\ ret.val # Zero

\* C8: haversine has no failure mode: every call returns a value and a is
\* in [0, 1].
C8_HaversineNoFailure ==
    IsHav =>
        /\ ret.kind = "value"
        /\ ret.loc["a"][1] >= 0
        /\ FLe(ret.loc["a"], One)

\* the test's tolerance, delta=1 of line 125
Delta == FromInt(1)

C5_EqualDepthsScale ==
    (IsChord /\ call.args[3] = call.args[4] /\ call.args[3][1] >= 0
        /\ FLe(call.args[3], call.args[1])) =>
        LET radius == call.args[1]
            d == call.args[3]
            surface == Outcome(Call("linear_dist_sphere",
                                    <<radius, call.args[2], Zero, Zero>>, ModuleGlobals).f)
        IN  /\ ret.kind = "value"
            /\ surface.kind = "value"
            /\ AssertAlmostEqual(ret.val,
                                 FMul(surface.val, FDiv(FSub(radius, d), radius)), Delta)

\* C6: for radius 1000 with surf_dist = depth_a = s and depth_b = 0 the result
\* is within the test's delta of the hypotenuse sqrt(s^2 + s^2), and the case
\* of the test, s = 10, is within the delta of 14.414.
C6_NearHypotenuse ==
    (IsChord /\ call.args[1] = FromInt(1000) /\ call.args[2] = call.args[3]
        /\ call.args[2] # Zero /\ call.args[4] = Zero) =>
        LET s == call.args[2] IN
        /\ ret.kind = "value"
        /\ AssertAlmostEqual(ret.val, FSqrt(FAdd(FMul(s, s), FMul(s, s))), Delta)
        /\ call.test = 4 => AssertAlmostEqual(ret.val, ChordTests[4].target, Delta)

C6_Witness ==
    /\ IsChord
    /\ call.test = 4
    /\ ret.kind = "value"
    /\ ret.val # ChordTests[4].target

\* C7: linear_dist_sphere never raises: the argument of sqrt is never
\* negative, depths above the radius included.
C7_ChordNeverRaises == IsChord => ret.kind = "value"

\* C9: the functions share no mutable state: whatever the interleaving of
\* the statements of concurrent calls, each call's outcome is the outcome of
\* the same call run alone, and the module namespace is never changed.
C9_ThreadsIndependent ==
    /\ globals = ModuleGlobals
    /\ \A t \in Threads :
          results[t].kind # "none" =>
              results[t] = Outcome(Call(calls[t].fn, calls[t].args, ModuleGlobals).f)

\* one thread's haversine call has returned after the other thread's
\* linear_dist_sphere call ran its import and its first assignments
C9_Witness ==
    \E t \in Threads, u \in Threads :
        /\ t # u
        /\ calls[t].fn = "haversine"
        /\ results[t].kind = "value"
        /\ frames[u].fn = "linear_dist_sphere"
        /\ frames[u].pc = 38
        /\ results[u].kind = "none"

\* C10: rad_2_deg returns rad * 180 / pi, deg_2_rad returns deg * pi / 180,
\* and rad_2_deg(deg_2_rad(x)) gives back x up to rounding.
C10_AnglesConvert ==
    /\ call.fn = "rad_2_deg" =>
          (ret.kind = "value"
              /\ ret.val = FDiv(FMul(call.args[1], FromInt(180)), Pi))
    /\ call.fn = "deg_2_rad" =>
          (ret.kind = "value"
              /\ ret.val = FDiv(FMul(call.args[1], Pi), FromInt(180)))
    /\ call.fn = "rad_2_deg(deg_2_rad)" =>
          (ret.kind = "value"
              /\ AssertAlmostEqual(ret.val, call.args[1], FMul(FAbs(call.args[1]), Ulp)))
====
